---- MODULE Spec2Model ----
(***************************************************************************)
(* Model of src/src/hangul.rs: decomposition of precomposed Hangul         *)
(* syllables into (lead, vowel, tail) jamo codes, the romanization tables  *)
(* and their inverses, and KoreanSentence::applied(), the left-to-right    *)
(* sweep that rewrites adjacent Hangul pairs through RULES.                *)
(*                                                                         *)
(* Characters are code points (naturals); strings of characters are        *)
(* sequences of code points.  Romanized strings are TLA+ strings.          *)
(* A Rust panic (slice index out of range, HashMap index on a missing      *)
(* key) is the terminal control state pc = "panic" with its cause.         *)
(***************************************************************************)
EXTENDS Naturals, Sequences, FiniteSets

VARIABLES
    text,      \* the &str given to KoreanSentence::new, as code points
    pc,        \* "init" | "ready" | "applied_vec" | "panic"
    context,   \* JamoContext of the sentences (cloned by applied())
    sents,     \* payloads: sents[1] = new(text), sents[k+1] = sents[k].applied()
    a,         \* applied_vec: parameter a
    b,         \* applied_vec: parameter b
    rest,      \* applied_vec: parameter rest
    out,       \* letters already emitted by the enclosing applied_vec calls
    fired,     \* rules that matched in the last apply_rules call, in order
    cause,     \* "none" | "index" | "lookup": why the program panicked
    printed    \* last hangul_string() rendering of the newest sentence

vars == <<text, pc, context, sents, a, b, rest, out, fired, cause, printed>>

----------------------------------------------------------------------------
(* Bounds of the model *)

\* longest text drawn over SweepChars
MaxLen == 3
\* how many code points on each side of the Hangul syllable block are drawn
Margin == 40
\* how many times applied() is called in a row
MaxPasses == 2

----------------------------------------------------------------------------
(* Constants and tables, hangul.rs:6-21 *)

JAMO_OFFSET == 44032
LEAD_OFFSET == 4352
VOWEL_OFFSET == 4449
TAIL_OFFSET == 4519
\* the exclusive upper bound 0xd74a of Letter::new
HANGUL_END == 55114

\* Rust arrays are 0-indexed: code i is entry i + 1 of the tuple.
LEAD_DICT ==
    << "g", "kk", "n", "d", "tt", "r", "m", "b", "pp", "s",
       "ss", "", "j", "tch", "ch", "k", "t", "p", "h" >>
VOWEL_DICT ==
    << "a", "ae", "ya", "yae", "eo", "e", "yeo", "ye", "o", "wa",
       "wae", "oe", "yo", "u", "weo", "we", "wi", "yu", "eu", "eui",
       "i" >>
TAIL_DICT ==
    << "", "g", "gg", "gs", "n", "nj", "nh", "d", "r", "rg",
       "rm", "rb", "rs", "rt", "rb", "rh", "m", "b", "bs", "s",
       "ss", "ng", "j", "ch", "k", "t", "p", "h" >>

Max(S) == CHOOSE x \in S : \A y \in S : y <= x

\* HashMap::from_iter over (string, index): a later entry with the same key
\* replaces the earlier one, so a repeated string keeps its last index.
reverse_dict(s) ==
    [v \in {s[i] : i \in 1..Len(s)} |->
        Max({i \in 1..Len(s) : s[i] = v}) - 1]

----------------------------------------------------------------------------
(* Jamo, hangul.rs:34-63 *)

Jamo(u, position) == [usize |-> u, position |-> position]

Jamo_roman(j) ==
    CASE j.position = "Lead"  -> LEAD_DICT[j.usize + 1]
      [] j.position = "Vowel" -> VOWEL_DICT[j.usize + 1]
      [] j.position = "Tail"  -> TAIL_DICT[j.usize + 1]

\* char::from_u32(..).unwrap(): every code reached lies far below the
\* surrogate range, so the conversion is the code point itself.
jamo_char_from_usize(u, offset) == u + offset

\* Jamo_jamo_string without the early return for an absent tail
Jamo_jamo_string_no_empty_tail(j) ==
    CASE j.position = "Lead"  -> << jamo_char_from_usize(j.usize, LEAD_OFFSET) >>
      [] j.position = "Vowel" -> << jamo_char_from_usize(j.usize, VOWEL_OFFSET) >>
      [] j.position = "Tail"  -> << jamo_char_from_usize(j.usize, TAIL_OFFSET) >>

Jamo_jamo_string(j) ==
    CASE j.position = "Lead"  -> << jamo_char_from_usize(j.usize, LEAD_OFFSET) >>
      [] j.position = "Vowel" -> << jamo_char_from_usize(j.usize, VOWEL_OFFSET) >>
      [] j.position = "Tail"  ->
            IF j.usize = 0 THEN << >>
            ELSE << jamo_char_from_usize(j.usize, TAIL_OFFSET) >>

----------------------------------------------------------------------------
(* Hangul, hangul.rs:65-107 *)

\* Hangul_new with the vowel taken from the whole offset (the % 588 dropped)
Hangul_new_vowel_of_offset(c) ==
    LET rem   == c - JAMO_OFFSET
        lead  == rem \div 588
        vowel == rem \div 28
        tail  == rem % 28
    IN  [lead  |-> Jamo(lead, "Lead"),
         vowel |-> Jamo(vowel, "Vowel"),
         tail  |-> Jamo(tail, "Tail")]

Hangul_new(c) ==
    LET rem   == c - JAMO_OFFSET
        lead  == rem \div 588
        vowel == (rem % 588) \div 28
        tail  == rem % 28
    IN  [lead  |-> Jamo(lead, "Lead"),
         vowel |-> Jamo(vowel, "Vowel"),
         tail  |-> Jamo(tail, "Tail")]

Hangul_hangul_string(h) ==
    Jamo_jamo_string(h.lead) \o Jamo_jamo_string(h.vowel) \o Jamo_jamo_string(h.tail)

----------------------------------------------------------------------------
(* Letter, hangul.rs:109-147 *)

HangulLetter(h) == [tag |-> "HangulLetter", v |-> h]
OtherLetter(c)  == [tag |-> "OtherLetter", v |-> c]

Letter_new(c) ==
    IF JAMO_OFFSET <= c /\ c < HANGUL_END
    THEN HangulLetter(Hangul_new(c))
    ELSE OtherLetter(c)

is_hangul(l) == l.tag = "HangulLetter"

Letter_hangul_string(l) ==
    IF is_hangul(l) THEN Hangul_hangul_string(l.v) ELSE << l.v >>

----------------------------------------------------------------------------
(* Rule and RULES, hangul.rs:149-182 *)

RULES ==
    << [tail |-> "h",  lead |-> ""],
       [tail |-> "*",  lead |-> ""],
       [tail |-> "b",  lead |-> "n"],
       [tail |-> "n",  lead |-> "h"],
       [tail |-> "bs", lead |-> "*"] >>

\* strategy with the first rule deleting only the lead and keeping the tail
strategy_rule1_keeps_tail(k, t, l) ==
    CASE k = 1 -> << t, "" >>
      [] k = 2 -> << "", t >>
      [] k = 3 -> << "m", l >>
      [] k = 4 -> << "", t >>
      [] k = 5 -> IF l = "" THEN << "p", "s" >> ELSE << "p", l >>

\* strategy with the fourth rule returning its pair in the wrong order
strategy_rule4_swapped(k, t, l) ==
    CASE k = 1 -> << "", "" >>
      [] k = 2 -> << "", t >>
      [] k = 3 -> << "m", l >>
      [] k = 4 -> << t, "" >>
      [] k = 5 -> IF l = "" THEN << "p", "s" >> ELSE << "p", l >>

\* the strategy closure of RULES[k - 1] applied to (old_tail, old_lead)
strategy(k, t, l) ==
    CASE k = 1 -> << "", "" >>
      [] k = 2 -> << "", t >>
      [] k = 3 -> << "m", l >>
      [] k = 4 -> << "", t >>
      [] k = 5 -> IF l = "" THEN << "p", "s" >> ELSE << "p", l >>

\* the condition of hangul.rs:250
rule_matches(rule, tail, lead) ==
    /\ (rule.tail = "*" \/ tail = rule.tail)
    /\ (rule.lead = "*" \/ lead = rule.lead)

----------------------------------------------------------------------------
(* KoreanSentence, hangul.rs:184-269 *)

JamoContext_new ==
    [lead_rev_dict  |-> reverse_dict(LEAD_DICT),
     vowel_rev_dict |-> reverse_dict(VOWEL_DICT),
     tail_rev_dict  |-> reverse_dict(TAIL_DICT)]

KoreanSentence_payload(s) == [i \in 1..Len(s) |-> Letter_new(s[i])]

KoreanSentence_hangul_string(payload) ==
    LET RECURSIVE join(_)
        join(i) == IF i > Len(payload) THEN << >>
                   ELSE Letter_hangul_string(payload[i]) \o join(i + 1)
    IN  join(1)

\* apply_rules that tests only the left letter for being Hangul and reads a
\* passthrough right letter as an empty lead
RECURSIVE apply_rules_left_only(_, _, _, _)
apply_rules_left_only(ctx, la, lb, k) ==
    IF k > Len(RULES)
    THEN [ok |-> TRUE, a |-> la, b |-> lb, fired |-> << >>]
    ELSE LET tail == IF is_hangul(la) THEN Jamo_roman(la.v.tail) ELSE ""
             lead == IF is_hangul(lb) THEN Jamo_roman(lb.v.lead) ELSE ""
             new  == strategy(k, tail, lead)
         IN  IF is_hangul(la) /\ rule_matches(RULES[k], tail, lead)
             THEN IF new[1] \notin DOMAIN ctx.tail_rev_dict
                     \/ new[2] \notin DOMAIN ctx.lead_rev_dict
                  THEN [ok |-> FALSE, a |-> la, b |-> lb, fired |-> << k >>]
                  ELSE LET na == HangulLetter(
                                     [lead  |-> la.v.lead,
                                      vowel |-> la.v.vowel,
                                      tail  |-> Jamo(ctx.tail_rev_dict[new[1]], "Tail")])
                           nb == IF is_hangul(lb)
                                 THEN HangulLetter(
                                     [lead  |-> Jamo(ctx.lead_rev_dict[new[2]], "Lead"),
                                      vowel |-> lb.v.vowel,
                                      tail  |-> lb.v.tail])
                                 ELSE lb
                           r  == apply_rules_left_only(ctx, na, nb, k + 1)
                       IN  [r EXCEPT !.fired = << k >> \o r.fired]
             ELSE apply_rules_left_only(ctx, la, lb, k + 1)

\* apply_rules(a, b, &RULES[k-1..]).  The result is the pair it returns, or
\* ok = FALSE when indexing a reverse dictionary with a missing key panics;
\* fired lists the rules whose condition held, in the order they were applied.
RECURSIVE apply_rules(_, _, _, _)
apply_rules(ctx, la, lb, k) ==
    IF k > Len(RULES)
    THEN [ok |-> TRUE, a |-> la, b |-> lb, fired |-> << >>]
    ELSE IF is_hangul(la) /\ is_hangul(lb)
              /\ rule_matches(RULES[k], Jamo_roman(la.v.tail), Jamo_roman(lb.v.lead))
    THEN LET tail == Jamo_roman(la.v.tail)
             lead == Jamo_roman(lb.v.lead)
             new  == strategy(k, tail, lead)
         IN  IF new[1] \notin DOMAIN ctx.tail_rev_dict
                \/ new[2] \notin DOMAIN ctx.lead_rev_dict
             THEN [ok |-> FALSE, a |-> la, b |-> lb, fired |-> << k >>]
             ELSE LET na == HangulLetter(
                                [lead  |-> la.v.lead,
                                 vowel |-> la.v.vowel,
                                 tail  |-> Jamo(ctx.tail_rev_dict[new[1]], "Tail")])
                      nb == HangulLetter(
                                [lead  |-> Jamo(ctx.lead_rev_dict[new[2]], "Lead"),
                                 vowel |-> lb.v.vowel,
                                 tail  |-> lb.v.tail])
                      r  == apply_rules(ctx, na, nb, k + 1)
                  IN  [r EXCEPT !.fired = << k >> \o r.fired]
    ELSE apply_rules(ctx, la, lb, k + 1)

\* applied_vec that recurses on b as it was passed in, not on the rewritten _b
applied_vec_drops_b(ctx, la, lb, lrest) ==
    LET r == apply_rules(ctx, la, lb, 1)
    IN  IF ~r.ok
        THEN [ok |-> FALSE, emit |-> << >>, more |-> FALSE,
              a |-> r.a, b |-> r.b, rest |-> lrest, fired |-> r.fired]
        ELSE IF Len(lrest) = 0
        THEN [ok |-> TRUE, emit |-> << r.a, r.b >>, more |-> FALSE,
              a |-> r.a, b |-> r.b, rest |-> lrest, fired |-> r.fired]
        ELSE [ok |-> TRUE, emit |-> << r.a >>, more |-> TRUE,
              a |-> lb, b |-> Head(lrest), rest |-> Tail(lrest), fired |-> r.fired]

\* One call of applied_vec(a, b, rest): the letters it puts in front of the
\* vector, and either the arguments of its recursive call or none.
applied_vec(ctx, la, lb, lrest) ==
    LET r == apply_rules(ctx, la, lb, 1)
    IN  IF ~r.ok
        THEN [ok |-> FALSE, emit |-> << >>, more |-> FALSE,
              a |-> r.a, b |-> r.b, rest |-> lrest, fired |-> r.fired]
        ELSE IF Len(lrest) = 0
        THEN [ok |-> TRUE, emit |-> << r.a, r.b >>, more |-> FALSE,
              a |-> r.a, b |-> r.b, rest |-> lrest, fired |-> r.fired]
        ELSE [ok |-> TRUE, emit |-> << r.a >>, more |-> TRUE,
              a |-> r.b, b |-> Head(lrest), rest |-> Tail(lrest), fired |-> r.fired]

----------------------------------------------------------------------------
(* Inputs *)

NoLetter == [tag |-> "None", v |-> 0]
NoContext == [lead_rev_dict |-> << >>, vowel_rev_dict |-> << >>, tail_rev_dict |-> << >>]

\* the precomposed syllable with the given codes
Syl(lead, vowel, tail) == JAMO_OFFSET + 588 * lead + 28 * vowel + tail

\* "좋아요." of the doc-test of applied(), hangul.rs:228
DocTestText == << 51339, 50500, 50836, 46 >>

\* single characters: the whole syllable block U+AC00..U+D7A3 with a margin
\* on both sides, and two ASCII characters
SingleChars == ((JAMO_OFFSET - Margin)..(55203 + Margin)) \cup {32, 46}

\* every tail (after an empty lead) and every lead (before no tail): the
\* two-letter texts over them hold all 28 x 19 (tail, lead) pairs
PairChars ==
    {Syl(11, 0, t) : t \in 0..27} \cup {Syl(l, 0, 0) : l \in 0..18} \cup {46}

\* 원 하 는 을 없 습 니 좋 아 요 of main.rs:7 and the doc-test, and '.'
SweepChars ==
    { Syl(11, 14, 4), Syl(18, 0, 0), Syl(2, 18, 4),
      Syl(11, 18, 8), Syl(11, 4, 18), Syl(9, 18, 17), Syl(2, 20, 0),
      Syl(12, 8, 27), Syl(11, 0, 0), Syl(11, 12, 0), 46 }

Texts ==
    {<< >>, DocTestText}
    \cup {<< c >> : c \in SingleChars}
    \cup [1..2 -> PairChars]
    \cup UNION {[1..n -> SweepChars] : n \in 2..MaxLen}

----------------------------------------------------------------------------
(* The program *)

Init ==
    /\ text \in Texts
    /\ pc = "init"
    /\ context = NoContext
    /\ sents = << >>
    /\ a = NoLetter
    /\ b = NoLetter
    /\ rest = << >>
    /\ out = << >>
    /\ fired = << >>
    /\ cause = "none"
    /\ printed = << >>

\* KoreanSentence::new(text)
New ==
    /\ pc = "init"
    /\ sents' = << KoreanSentence_payload(text) >>
    /\ context' = JamoContext_new
    /\ pc' = "ready"
    /\ UNCHANGED <<text, a, b, rest, out, fired, cause, printed>>

\* hangul_string() of the newest sentence
HangulString ==
    /\ pc = "ready"
    /\ printed' = KoreanSentence_hangul_string(sents[Len(sents)])
    /\ UNCHANGED <<text, pc, context, sents, a, b, rest, out, fired, cause>>

\* applied() of the newest sentence: payload[0], payload[1] and payload[2..]
\* are indexed before applied_vec is entered
Applied ==
    /\ pc = "ready"
    /\ Len(sents) <= MaxPasses
    /\ LET payload == sents[Len(sents)]
       IN  IF Len(payload) < 2
           THEN /\ pc' = "panic"
                /\ cause' = "index"
                /\ UNCHANGED <<a, b, rest>>
           ELSE /\ pc' = "applied_vec"
                /\ a' = payload[1]
                /\ b' = payload[2]
                /\ rest' = SubSeq(payload, 3, Len(payload))
                /\ UNCHANGED cause
    /\ out' = << >>
    /\ fired' = << >>
    /\ printed' = << >>
    /\ UNCHANGED <<text, context, sents>>

\* one call of applied_vec; the last one completes applied()
AppliedVec ==
    /\ pc = "applied_vec"
    /\ LET r == applied_vec(context, a, b, rest)
       IN  /\ fired' = r.fired
           /\ a' = r.a
           /\ b' = r.b
           /\ rest' = r.rest
           /\ IF ~r.ok
              THEN /\ pc' = "panic"
                   /\ cause' = "lookup"
                   /\ UNCHANGED <<out, sents>>
              ELSE IF r.more
              THEN /\ pc' = "applied_vec"
                   /\ out' = out \o r.emit
                   /\ UNCHANGED <<cause, sents>>
              ELSE /\ pc' = "ready"
                   /\ out' = << >>
                   /\ sents' = Append(sents, out \o r.emit)
                   /\ UNCHANGED cause
    /\ UNCHANGED <<text, context, printed>>

Next == New \/ HangulString \/ Applied \/ AppliedVec

Spec == Init /\ [][Next]_vars

----------------------------------------------------------------------------
(* Properties *)

\* the sentence the k-th applied() was called on, and the one it returned
Before(k) == sents[k]
After(k) == sents[k + 1]
Passes == 1..(Len(sents) - 1)

\* position of parameter a of the current applied_vec call in the payload
CurrentIndex == Len(sents[Len(sents)]) - Len(rest) - 1

\* C1: applied() never hits a failed inverse-table lookup: every string a
\* matching rule's strategy returns is a key of the inverse tail table (new
\* tail) and of the inverse lead table (new lead), whatever the tail and lead.
C1_NoFailedLookup == ~(pc = "panic" /\ cause = "lookup")

\* C2: applied() is total over the input length: it never fails on the
\* length of the text (the empty text and one-character texts included) and
\* every sentence it returns is as long as the original.
C2_AppliedTotal ==
    /\ ~(pc = "panic" /\ cause = "index")
    /\ \A k \in Passes : Len(After(k)) = Len(text)

\* C3: for the text "좋아요." applied() returns the letters (12, o, 0),
\* (11, a, 0), (11, yo, 0), '.', and hangul_string() of it is
\* U+110C U+1169 U+110B U+1161 U+110B U+116D U+002E.
C3_DocTest ==
    (text = DocTestText /\ Len(sents) >= 2) =>
        /\ After(1) =
             << HangulLetter([lead |-> Jamo(12, "Lead"), vowel |-> Jamo(8, "Vowel"),
                              tail |-> Jamo(0, "Tail")]),
                HangulLetter([lead |-> Jamo(11, "Lead"), vowel |-> Jamo(0, "Vowel"),
                              tail |-> Jamo(0, "Tail")]),
                HangulLetter([lead |-> Jamo(11, "Lead"), vowel |-> Jamo(12, "Vowel"),
                              tail |-> Jamo(0, "Tail")]),
                OtherLetter(46) >>
        /\ (Len(sents) = 2 /\ pc = "ready" /\ printed # << >>) =>
               printed = << 4364, 4457, 4363, 4449, 4363, 4461, 46 >>

\* the doc-test text has been swept once and rendered
C3_DocTestPrinted ==
    /\ text = DocTestText
    /\ Len(sents) = 2
    /\ pc = "ready"
    /\ printed # << >>

Bijective(fwd, inv) ==
    /\ \A i, j \in 1..Len(fwd) : fwd[i] = fwd[j] => i = j
    /\ \A i \in 1..Len(fwd) : fwd[i] \in DOMAIN inv /\ inv[fwd[i]] = i - 1

\* C4: each forward table and its inverse built by reverse_dict are exact
\* bijections: the forward strings are pairwise distinct and
\* inverse[forward[i]] = i for every code i.
C4_Bijections ==
    pc # "init" =>
        /\ Bijective(LEAD_DICT, context.lead_rev_dict)
        /\ Bijective(VOWEL_DICT, context.vowel_rev_dict)
        /\ Bijective(TAIL_DICT, context.tail_rev_dict)

\* C5: applied() never alters a passthrough letter, and in an adjacent pair
\* with exactly one Hangul letter the Hangul letter keeps its tail (when it
\* is the left letter) or its lead (when it is the right letter).
C5_PassthroughFrame ==
    \A k \in Passes :
        /\ \A i \in 1..Len(Before(k)) :
              ~is_hangul(Before(k)[i]) => After(k)[i] = Before(k)[i]
        /\ \A i \in 1..(Len(Before(k)) - 1) :
              /\ (is_hangul(Before(k)[i]) /\ ~is_hangul(Before(k)[i + 1])) =>
                    /\ is_hangul(After(k)[i])
                    /\ After(k)[i].v.tail = Before(k)[i].v.tail
              /\ (~is_hangul(Before(k)[i]) /\ is_hangul(Before(k)[i + 1])) =>
                    /\ is_hangul(After(k)[i + 1])
                    /\ After(k)[i + 1].v.lead = Before(k)[i + 1].v.lead

\* a pass over a Hangul letter with tail "h" before a passthrough letter, and
\* a passthrough letter before a Hangul letter with the empty lead
C5_MixedPairsSwept ==
    /\ Len(sents) >= 2
    /\ \E i \in 1..(Len(sents[1]) - 1) :
          /\ is_hangul(sents[1][i])
          /\ sents[1][i].v.tail.usize = 27
          /\ ~is_hangul(sents[1][i + 1])
    /\ \E i \in 1..(Len(sents[1]) - 1) :
          /\ ~is_hangul(sents[1][i])
          /\ is_hangul(sents[1][i + 1])
          /\ sents[1][i + 1].v.lead.usize = 11

\* C6: every code point c in [U+AC00, U+D74A) becomes a Hangul letter with
\* lead < 19, vowel < 21, tail < 28 and 0xAC00 + 588*lead + 28*vowel + tail
\* = c; every other code point becomes a passthrough letter.
C6_Decompose ==
    pc # "init" =>
        \A i \in 1..Len(text) :
            LET c == text[i]
                l == sents[1][i]
            IN  IF 44032 <= c /\ c < 55114
                THEN /\ is_hangul(l)
                     /\ l.v.lead.usize < 19
                     /\ l.v.vowel.usize < 21
                     /\ l.v.tail.usize < 28
                     /\ 44032 + 588 * l.v.lead.usize + 28 * l.v.vowel.usize
                            + l.v.tail.usize = c
                ELSE l = OtherLetter(c)

\* the last code point that is classified as Hangul has been decomposed
C6_LastHangulDecomposed ==
    /\ pc # "init"
    /\ text = << 55113 >>
    /\ is_hangul(sents[1][1])

\* C7: for every adjacent Hangul pair whose left letter has tail "bs", one
\* applied() pass leaves the left tail as "p"; the right lead becomes "s" if
\* it was the empty lead, and is unchanged otherwise.
C7_TailBs ==
    /\ \A k \in Passes : \A i \in 1..(Len(Before(k)) - 1) :
          (/\ is_hangul(Before(k)[i])
           /\ is_hangul(Before(k)[i + 1])
           /\ Jamo_roman(Before(k)[i].v.tail) = "bs") =>
              /\ Jamo_roman(After(k)[i].v.tail) = "p"
              /\ Jamo_roman(After(k)[i + 1].v.lead) =
                    IF Jamo_roman(Before(k)[i + 1].v.lead) = ""
                    THEN "s"
                    ELSE Jamo_roman(Before(k)[i + 1].v.lead)
    /\ ~(/\ pc = "panic"
         /\ cause = "lookup"
         /\ Jamo_roman(a.v.tail) = "bs")

\* the rule chain on letters i and i+1 of p, taken alone
PairAlone(p, i) == apply_rules(context, p[i], p[i + 1], 1)

\* letter i of p with its lead from the pair to its left and its tail from
\* the pair to its right, each pair taken alone
LetterAlone(p, i) ==
    IF ~is_hangul(p[i]) THEN p[i]
    ELSE HangulLetter(
            [lead  |-> IF i > 1 /\ is_hangul(p[i - 1])
                       THEN PairAlone(p, i - 1).b.v.lead ELSE p[i].v.lead,
             vowel |-> p[i].v.vowel,
             tail  |-> IF i < Len(p) /\ is_hangul(p[i + 1])
                       THEN PairAlone(p, i).a.v.tail ELSE p[i].v.tail])

\* C8: no cross-pair cascading: after a pass, the tail of letter i and the
\* lead of letter i+1 are what the rule chain gives on the ORIGINAL letters
\* i and i+1 alone; vowels, the first lead and the last tail are unchanged;
\* and the pass fails only where the chain fails on an original pair.
C8_NoCascade ==
    /\ \A k \in Passes :
          /\ \A i \in 1..(Len(Before(k)) - 1) : PairAlone(Before(k), i).ok
          /\ After(k) = [i \in 1..Len(Before(k)) |-> LetterAlone(Before(k), i)]
          /\ \A i \in 1..Len(Before(k)) :
                is_hangul(Before(k)[i]) =>
                    After(k)[i].v.vowel = Before(k)[i].v.vowel
          /\ is_hangul(Before(k)[1]) => After(k)[1].v.lead = Before(k)[1].v.lead
          /\ is_hangul(Before(k)[Len(Before(k))]) =>
                After(k)[Len(After(k))].v.tail
                    = Before(k)[Len(Before(k))].v.tail
    /\ (pc = "panic" /\ cause = "lookup") =>
          ~PairAlone(sents[Len(sents)], CurrentIndex).ok

\* a pass that changed both the lead and the tail of one letter
C8_LeadAndTailRewritten ==
    /\ Len(sents) >= 2
    /\ \E i \in 2..(Len(sents[1]) - 1) :
          /\ is_hangul(sents[1][i])
          /\ sents[2][i].v.lead # sents[1][i].v.lead
          /\ sents[2][i].v.tail # sents[1][i].v.tail

\* the rules whose condition holds on the pair as it stands
FirstMatch(la, lb) ==
    {k \in 1..Len(RULES) :
        rule_matches(RULES[k], Jamo_roman(la.v.tail), Jamo_roman(lb.v.lead))}

Min(S) == CHOOSE x \in S : \A y \in S : x <= y

\* variant (b): only the first matching rule is applied to the pair
FirstMatchOnly(ctx, la, lb) ==
    IF ~(is_hangul(la) /\ is_hangul(lb)) \/ FirstMatch(la, lb) = {}
    THEN [ok |-> TRUE, a |-> la, b |-> lb]
    ELSE LET new == strategy(Min(FirstMatch(la, lb)),
                             Jamo_roman(la.v.tail), Jamo_roman(lb.v.lead))
         IN  IF new[1] \notin DOMAIN ctx.tail_rev_dict
                \/ new[2] \notin DOMAIN ctx.lead_rev_dict
             THEN [ok |-> FALSE, a |-> la, b |-> lb]
             ELSE [ok |-> TRUE,
                   a  |-> [la EXCEPT !.v.tail.usize = ctx.tail_rev_dict[new[1]]],
                   b  |-> [lb EXCEPT !.v.lead.usize = ctx.lead_rev_dict[new[2]]]]

\* C9: apply_rules chains every matching rule once, in priority order, and
\* on every pair the chained outcome (new tail and lead codes, or the same
\* lookup failure) is the outcome of applying only the first matching rule.
C9_ChainIsFirstMatch ==
    /\ \A i, j \in 1..Len(fired) : i < j => fired[i] < fired[j]
    /\ pc = "applied_vec" =>
          LET r == apply_rules(context, a, b, 1)
              f == FirstMatchOnly(context, a, b)
          IN  /\ r.ok = f.ok
              /\ r.ok => (r.a = f.a /\ r.b = f.b)
              /\ (r.fired # << >>) =>
                    (is_hangul(a) /\ is_hangul(b)
                        /\ r.fired[1] = Min(FirstMatch(a, b)))

\* a pair on which two rules fired in one chain: rule 1, then rule 2
C9_TwoRulesChained == fired = << 1, 2 >>

\* C10: applied() is idempotent wherever it completes: on the result of a
\* completed pass applied() completes too and returns the same letters.
C10_Idempotent ==
    /\ \A k \in Passes : k >= 2 => After(k) = Before(k)
    /\ Len(sents) >= 2 => pc # "panic"

\* a second pass has completed on a sentence that the first pass changed
C10_SecondPassDone ==
    /\ Len(sents) >= 3
    /\ sents[2] # sents[1]

====
